---- MODULE Spec2Model ----
(***************************************************************************)
(* Model of include/contracts.h: a design-by-contract macro layer.         *)
(*                                                                         *)
(* The state is the state of one translation unit while it is preprocessed *)
(* and of the process running the statements compiled so far: the flags    *)
(* NDEBUG / EXDEBUG the unit currently defines, the macros contracts.h     *)
(* (re)defines at each inclusion, and what the last use of a contract      *)
(* macro did at run time (evaluations, standard error, signal, abort).     *)
(* A use is expanded with the macro definitions in force where it appears, *)
(* so one action expands a use and runs the resulting statement.           *)
(*                                                                         *)
(* Source text is modelled as sequences of preprocessing tokens, so that   *)
(* argument prescan and the # operator are computed and not assumed.       *)
(***************************************************************************)
EXTENDS Integers, Sequences, FiniteSets, TLC

VARIABLES
    cplusplus,      \* __cplusplus is defined (host language is C++)
    NULL,           \* replacement list of NULL from <cstddef> / <stddef.h>
    NDEBUG,         \* NDEBUG is currently defined in the unit
    EXDEBUG,        \* EXDEBUG is currently defined in the unit
    H_CONTRACTS,    \* the include guard macro is defined
    macros,         \* current definitions of if_else_debug, CONTRACTS_ASSERT
                    \* and of the standard macro assert
    inclusions,     \* number of inclusions of contracts.h so far
    inclFlags,      \* flags that were visible at the most recent inclusion
    stderr,         \* records written to the standard error stream
    aborted,        \* the process has been terminated abnormally
    last            \* observation of the most recent use of a macro

vars == <<cplusplus, NULL, NDEBUG, EXDEBUG, H_CONTRACTS, macros, inclusions,
          inclFlags, stderr, aborted, last>>

(***************************************************************************)
(* Bounds                                                                  *)
(***************************************************************************)
MaxInclusions == 2
MaxLine == 1

Lines == 1..MaxLine
File == "unit.cpp"

(***************************************************************************)
(* Preprocessor                                                            *)
(***************************************************************************)

\* Possible replacement lists of NULL; which one is implementation-defined.
NullDefinitions == {<<"__null">>, <<"0">>}

\* Full macro expansion of a token sequence.  NULL is the object-like
\* macro the header itself brings into the unit that conditions mention.
RECURSIVE MacroExpand(_)
MacroExpand(tokens) ==
    IF tokens = <<>> THEN <<>>
    ELSE (IF Head(tokens) = "NULL" THEN NULL ELSE <<Head(tokens)>>)
         \o MacroExpand(Tail(tokens))

\* A parameter that is not an operand of # or ## is replaced by the
\* argument after all macros in it have been expanded.
Prescan(arg) == MacroExpand(arg)

\* Spelling of a token sequence (white space is itself a token, " ").
RECURSIVE Spelling(_)
Spelling(tokens) ==
    IF tokens = <<>> THEN "" ELSE Head(tokens) \o Spelling(Tail(tokens))

\* The # operator: the spelling of the argument as it was passed.
Stringify(arg) == Spelling(arg)

Undefined == "undefined"
RedefinitionError == "redefinition_error"

\* #define of a macro: redefining a defined macro with another replacement
\* list is ill-formed.
DefineMacro(current, body) ==
    IF current \in {Undefined, body} THEN body ELSE RedefinitionError

\* #include <cassert> / <assert.h>: assert is redefined according to NDEBUG
\* on every inclusion.
IncludeAssertH(ndebug) == IF ndebug THEN "void0" ELSE "check"

\* Variant: the #undef of CONTRACTS_ASSERT is forgotten.
ResetMacros_partial(m) ==
    IF m.if_else_debug # Undefined
    THEN [m EXCEPT !.if_else_debug = Undefined]
    ELSE m

\* #ifdef if_else_debug / #undef if_else_debug / #undef CONTRACTS_ASSERT
ResetMacros(m) ==
    IF m.if_else_debug # Undefined
    THEN [m EXCEPT !.if_else_debug = Undefined,
                   !.CONTRACTS_ASSERT = Undefined]
    ELSE m

\* Variant: EXDEBUG is tested before NDEBUG.
SelectMacros_exdebugFirst(m, ndebug, exdebug, cpp) ==
    IF exdebug /\ cpp
    THEN [m EXCEPT !.if_else_debug =
                       DefineMacro(@, IF ndebug THEN "code_else"
                                                ELSE "code_if"),
                   !.CONTRACTS_ASSERT = DefineMacro(@, "throw")]
    ELSE IF ndebug
    THEN [m EXCEPT !.if_else_debug = DefineMacro(@, "code_else"),
                   !.CONTRACTS_ASSERT = DefineMacro(@, "void0")]
    ELSE [m EXCEPT !.if_else_debug = DefineMacro(@, "code_if"),
                   !.CONTRACTS_ASSERT = DefineMacro(@, "assert")]

\* #ifdef NDEBUG ... #else ... #endif
SelectMacros(m, ndebug, exdebug, cpp) ==
    IF ndebug
    THEN [m EXCEPT !.if_else_debug = DefineMacro(@, "code_else"),
                   !.CONTRACTS_ASSERT = DefineMacro(@, "void0")]
    ELSE [m EXCEPT !.if_else_debug = DefineMacro(@, "code_if"),
                   !.CONTRACTS_ASSERT =
                       IF exdebug /\ cpp
                       THEN DefineMacro(@, "throw")
                       ELSE DefineMacro(@, "assert")]

\* The whole header, top to bottom.
IncludeContractsH(m, ndebug, exdebug, cpp) ==
    SelectMacros(ResetMacros([m EXCEPT !.assert = IncludeAssertH(ndebug)]),
                 ndebug, exdebug, cpp)

(***************************************************************************)
(* Signals                                                                 *)
(***************************************************************************)
RootType == "std::exception"
Types == {"ContractViolated", "std::logic_error", "std::out_of_range",
          "std::runtime_error"}

\* Public base class of a signal type.
BaseOf(t) ==
    CASE t = "ContractViolated"   -> "std::logic_error"
      [] t = "std::out_of_range"  -> "std::logic_error"
      [] t = "std::logic_error"   -> RootType
      [] t = "std::runtime_error" -> RootType
      [] OTHER                    -> "none"

\* A handler for type h catches a signal of type t or of a type derived
\* from h.
RECURSIVE Matches(_, _)
Matches(t, h) ==
    IF t = "none" THEN FALSE
    ELSE IF t = h THEN TRUE
    ELSE Matches(BaseOf(t), h)

NoSignal == [type |-> "none", what |-> ""]

\* ContractViolated(what): a std::logic_error carrying the message.
ContractViolated(what) == [type |-> "ContractViolated", what |-> what]

(***************************************************************************)
(* Statements a use expands to, and their execution                        *)
(***************************************************************************)
Void0 == [kind |-> "void0"]

ReporterFormat == "*** assertion failed at %s:%lu\n%s\n"
StandardAssertFormat == "implementation-defined"

\* Outcome of running a statement: the events observed in order ("eval" for
\* an evaluation of a checked condition, or the name of a user effect),
\* how it ended, the signal in flight and what it wrote to standard error.
Completed(trace) ==
    [trace |-> trace, outcome |-> "normal", signal |-> NoSignal,
     err |-> <<>>]
Thrown(trace, signal) ==
    [trace |-> trace, outcome |-> "throw", signal |-> signal, err |-> <<>>]
Aborted(trace, err) ==
    [trace |-> trace, outcome |-> "abort", signal |-> NoSignal, err |-> err]

\* Variant: the call of abort() is missing.
__contracts_assert_failed_noabort(trace, file, line, msg) ==
    [trace |-> trace, outcome |-> "normal", signal |-> NoSignal,
     err |-> <<[format |-> ReporterFormat, file |-> file, line |-> line,
                msg |-> msg]>>]

\* Variant: the reporter follows the exception mode.
__contracts_assert_failed_throwing(trace, file, line, msg) ==
    IF macros.CONTRACTS_ASSERT = "throw"
    THEN Thrown(trace, ContractViolated(msg))
    ELSE Aborted(trace, <<[format |-> ReporterFormat, file |-> file,
                           line |-> line, msg |-> msg]>>)

\* fprintf(stderr, "*** assertion failed at %s:%lu\n%s\n", file, line, msg);
\* abort();
__contracts_assert_failed(trace, file, line, msg) ==
    Aborted(trace, <<[format |-> ReporterFormat, file |-> file,
                      line |-> line, msg |-> msg]>>)

\* Failure of the standard macro assert: the text of the argument, the file
\* name and the line number are written in an implementation-defined
\* format, then abort() is called.
StandardAssertFailed(trace, file, line, text) ==
    Aborted(trace, <<[format |-> StandardAssertFormat, file |-> file,
                      line |-> line, msg |-> text]>>)

\* The standard macro assert, as last defined by <cassert>.
assert(expr) ==
    IF macros.assert = "check"
    THEN [kind |-> "assert", value |-> expr.value,
          text |-> Stringify(expr.tokens)]
    ELSE Void0

PrescanExpr(exp) == [exp EXCEPT !.tokens = Prescan(@)]

\* Variant: the two branches of the conditional expression are exchanged.
CONTRACTS_ASSERT_inverted(expr) ==
    CASE macros.CONTRACTS_ASSERT = "void0" -> Void0
      [] macros.CONTRACTS_ASSERT = "throw" ->
             [kind |-> "check_or_throw", value |-> ~expr.value,
              what |-> Stringify(expr.tokens)]
      [] macros.CONTRACTS_ASSERT = "assert" -> assert(PrescanExpr(expr))

CONTRACTS_ASSERT(expr) ==
    CASE macros.CONTRACTS_ASSERT = "void0" -> Void0
      [] macros.CONTRACTS_ASSERT = "throw" ->
             [kind |-> "check_or_throw", value |-> expr.value,
              what |-> Stringify(expr.tokens)]
      [] macros.CONTRACTS_ASSERT = "assert" -> assert(PrescanExpr(expr))

if_else_debug(code_if, code_else) ==
    CASE macros.if_else_debug = "code_else" -> code_else
      [] macros.if_else_debug = "code_if"   -> code_if

if_debug(code) == if_else_debug(code, Void0)

\* Variant: the arguments of if_else_debug are exchanged.
if_not_debug_swapped(code) == if_else_debug(code, Void0)

if_not_debug(code) == if_else_debug(Void0, code)

requires(exp) == CONTRACTS_ASSERT(PrescanExpr(exp))

ensures(exp) == CONTRACTS_ASSERT(PrescanExpr(exp))

validate(object) ==
    CONTRACTS_ASSERT(
        [tokens |-> <<"(">> \o Prescan(object.tokens)
                    \o <<")", ".", "isValid", "(", ")">>,
         value  |-> object.isValid])

\* Execution of a statement that contains no try block.
RunSimple(s, file, line) ==
    CASE s.kind = "void0"  -> Completed(<<>>)
      [] s.kind = "effect" -> Completed(<<s.name>>)
      [] s.kind = "throw"  -> Thrown(<<>>, [type |-> s.type, what |-> ""])
      [] s.kind = "check_or_throw" ->
             IF s.value THEN Completed(<<"eval">>)
             ELSE Thrown(<<"eval">>, ContractViolated(s.what))
      [] s.kind = "assert" ->
             IF s.value THEN Completed(<<"eval">>)
             ELSE StandardAssertFailed(<<"eval">>, file, line, s.text)

\* Execution of a sequence of statements: stops at the first one that does
\* not complete normally.
RECURSIVE RunSeq(_, _, _)
RunSeq(code, file, line) ==
    IF code = <<>> THEN Completed(<<>>)
    ELSE LET r == RunSimple(Head(code), file, line)
         IN IF r.outcome # "normal" THEN r
            ELSE LET rest == RunSeq(Tail(code), file, line)
                 IN [rest EXCEPT !.trace = r.trace \o @]

\* Spellings standing for the two typographic quotation marks of the
\* messages (U+201C and U+201D).
LDQUO == "<U+201C>"
RDQUO == "<U+201D>"

\* The code argument after prescan: contract macros inside it are expanded
\* with the definitions in force.
ExpandCode(code) ==
    [i \in 1..Len(code) |->
        IF code[i].kind = "requires" THEN requires(code[i].exp) ELSE code[i]]

\* Variant: the two messages are exchanged.
assert_exception_swapped(code, ex, file, line) ==
    if_debug(
        [kind |-> "try",
         code |-> ExpandCode(code),
         ex   |-> Spelling(Prescan(ex)),
         noException |-> "An unexpected exception has been "
                         \o "thrown (expected: " \o LDQUO \o Stringify(ex)
                         \o RDQUO \o ").",
         unexpected  |-> "No exceptions has been thrown "
                         \o "(expected: " \o LDQUO \o Stringify(ex)
                         \o RDQUO \o ")."])

assert_exception(code, ex, file, line) ==
    if_debug(
        [kind |-> "try",
         code |-> ExpandCode(code),
         ex   |-> Spelling(Prescan(ex)),
         noException |-> "No exceptions has been thrown "
                         \o "(expected: " \o LDQUO \o Stringify(ex)
                         \o RDQUO \o ").",
         unexpected  |-> "An unexpected exception has been "
                         \o "thrown (expected: " \o LDQUO \o Stringify(ex)
                         \o RDQUO \o ")."])

\* Variant: catch (...) comes first and takes every signal.
RunTry_catchAllFirst(s, file, line) ==
    LET r == RunSeq(s.code, file, line)
    IN CASE r.outcome = "normal" ->
                __contracts_assert_failed(r.trace, file, line, s.noException)
         [] r.outcome = "throw" ->
                __contracts_assert_failed(r.trace, file, line, s.unexpected)
         [] r.outcome = "abort" -> r

\* try { code; __contracts_assert_failed(...); }
\* catch (ex) {} catch (...) { __contracts_assert_failed(...); }
RunTry(s, file, line) ==
    LET r == RunSeq(s.code, file, line)
    IN CASE r.outcome = "normal" ->
                __contracts_assert_failed(r.trace, file, line, s.noException)
         [] r.outcome = "throw" ->
                IF Matches(r.signal.type, s.ex)
                THEN Completed(r.trace)
                ELSE __contracts_assert_failed(r.trace, file, line,
                                               s.unexpected)
         [] r.outcome = "abort" -> r

Run(s, file, line) ==
    IF s.kind = "try" THEN RunTry(s, file, line) ELSE RunSimple(s, file, line)

\* Where control goes after the statement, given the handler enclosing it:
\* a signal no handler matches ends in std::terminate.
Control(r, handler) ==
    CASE r.outcome = "normal" -> "next"
      [] r.outcome = "abort"  -> "terminated"
      [] r.outcome = "throw"  ->
             IF handler # "none" /\ Matches(r.signal.type, handler)
             THEN "handler" ELSE "terminated"

(***************************************************************************)
(* Inputs                                                                  *)
(***************************************************************************)
ExpTexts == {<<"x", " ", ">", " ", "0">>, <<"p", " ", "!=", " ", "NULL">>}
Exps == {[tokens |-> t, value |-> v] : t \in ExpTexts, v \in BOOLEAN}
Objects == {[tokens |-> <<"obj">>, isValid |-> v] : v \in BOOLEAN}
Handlers == {"none", "ContractViolated", "std::logic_error",
             "std::runtime_error"}
Kinds == {<<"ContractViolated">>, <<"std::logic_error">>,
          <<"std::out_of_range">>}

Effect(name) == [kind |-> "effect", name |-> name]
Throw(type) == [kind |-> "throw", type |-> type]
Requires(exp) == [kind |-> "requires", exp |-> exp]

Codes ==
    {<<Effect("a")>>}
    \cup {<<Effect("a"), Throw(t), Effect("b")>> :
            t \in {"std::out_of_range", "std::runtime_error"}}
    \cup {<<Effect("a"), Requires([tokens |-> <<"x", " ", ">", " ", "0">>,
                                   value |-> v]), Effect("b")>> :
            v \in BOOLEAN}

NoExp == [tokens |-> <<>>, value |-> TRUE]
Args(exp, code, ex) == [exp |-> exp, code |-> code, ex |-> ex]

NoUse == [op |-> "none"]

Init ==
    /\ cplusplus \in BOOLEAN
    /\ NULL \in NullDefinitions
    /\ NDEBUG \in BOOLEAN
    /\ EXDEBUG \in BOOLEAN
    /\ H_CONTRACTS = FALSE
    /\ macros = [if_else_debug |-> Undefined, CONTRACTS_ASSERT |-> Undefined,
                 assert |-> Undefined]
    /\ inclusions = 0
    /\ inclFlags = [NDEBUG |-> FALSE, EXDEBUG |-> FALSE]
    /\ stderr = <<>>
    /\ aborted = FALSE
    /\ last = NoUse

\* The unit defines or undefines NDEBUG / EXDEBUG between inclusions.
SetNDEBUG(b) ==
    /\ ~aborted
    /\ NDEBUG # b
    /\ NDEBUG' = b
    /\ UNCHANGED <<cplusplus, NULL, EXDEBUG, H_CONTRACTS, macros, inclusions,
                   inclFlags, stderr, aborted, last>>

SetEXDEBUG(b) ==
    /\ ~aborted
    /\ EXDEBUG # b
    /\ EXDEBUG' = b
    /\ UNCHANGED <<cplusplus, NULL, NDEBUG, H_CONTRACTS, macros, inclusions,
                   inclFlags, stderr, aborted, last>>

\* #include "contracts.h"
Include ==
    /\ ~aborted
    /\ inclusions < MaxInclusions
    /\ macros' = IncludeContractsH(macros, NDEBUG, EXDEBUG, cplusplus)
    /\ H_CONTRACTS' = TRUE
    /\ inclusions' = inclusions + 1
    /\ inclFlags' = [NDEBUG |-> NDEBUG, EXDEBUG |-> EXDEBUG]
    /\ UNCHANGED <<cplusplus, NULL, NDEBUG, EXDEBUG, stderr, aborted, last>>

\* A use of one of the macros at File:line inside a handler for `handler`
\* ("none": not inside a try block): the expansion stmt is executed.
Use(op, args, stmt, handler, line) ==
    /\ ~aborted
    /\ H_CONTRACTS
    /\ handler # "none" => cplusplus
    /\ LET r == Run(stmt, File, line)
           control == Control(r, handler)
       IN /\ last' = [op |-> op, args |-> args, handler |-> handler,
                      line |-> line, flags |-> inclFlags, trace |-> r.trace,
                      outcome |-> r.outcome, signal |-> r.signal,
                      err |-> r.err, control |-> control]
          /\ stderr' = stderr \o r.err
          /\ aborted' = (control = "terminated")
    /\ UNCHANGED <<cplusplus, NULL, NDEBUG, EXDEBUG, H_CONTRACTS, macros,
                   inclusions, inclFlags>>

UseRequires(exp, handler, line) ==
    Use("requires", Args(exp, <<>>, <<>>), requires(exp), handler, line)

UseEnsures(exp, handler, line) ==
    Use("ensures", Args(exp, <<>>, <<>>), ensures(exp), handler, line)

UseValidate(object, handler, line) ==
    /\ cplusplus
    /\ Use("validate",
           Args([tokens |-> object.tokens, value |-> object.isValid],
                <<>>, <<>>),
           validate(object), handler, line)

UseIfElseDebug(line) ==
    Use("if_else_debug", Args(NoExp, <<>>, <<>>),
        if_else_debug(Effect("A"), Effect("B")), "none", line)

UseIfDebug(line) ==
    Use("if_debug", Args(NoExp, <<>>, <<>>), if_debug(Effect("A")),
        "none", line)

UseIfNotDebug(line) ==
    Use("if_not_debug", Args(NoExp, <<>>, <<>>), if_not_debug(Effect("A")),
        "none", line)

UseAssertException(code, ex, handler, line) ==
    /\ cplusplus
    /\ Use("assert_exception", Args(NoExp, code, ex),
           assert_exception(code, ex, File, line), handler, line)

Next ==
    \/ \E b \in BOOLEAN : SetNDEBUG(b)
    \/ \E b \in BOOLEAN : SetEXDEBUG(b)
    \/ Include
    \/ \E exp \in Exps, h \in Handlers, l \in Lines : UseRequires(exp, h, l)
    \/ \E exp \in Exps, h \in Handlers, l \in Lines : UseEnsures(exp, h, l)
    \/ \E o \in Objects, h \in Handlers, l \in Lines : UseValidate(o, h, l)
    \/ \E l \in Lines : UseIfElseDebug(l)
    \/ \E l \in Lines : UseIfDebug(l)
    \/ \E l \in Lines : UseIfNotDebug(l)
    \/ \E c \in Codes, k \in Kinds, h \in {"none", "std::logic_error"},
          l \in Lines :
          UseAssertException(c, k, h, l)

Spec == Init /\ [][Next]_vars

(***************************************************************************)
(* Vocabulary of the properties                                            *)
(***************************************************************************)
RECURSIVE Count(_, _)
Count(trace, e) ==
    IF trace = <<>> THEN 0
    ELSE (IF Head(trace) = e THEN 1 ELSE 0) + Count(Tail(trace), e)

Checks == {"requires", "ensures", "validate"}

\* The configuration the last use was compiled under.
DebugActive == ~last.flags.NDEBUG
ExceptionMode == last.flags.EXDEBUG /\ cplusplus

\* The condition of the last check, as written in the source.
ConditionText ==
    IF last.op = "validate"
    THEN "(" \o Spelling(last.args.exp.tokens) \o ").isValid()"
    ELSE Spelling(last.args.exp.tokens)

FailedCheck == last.op \in Checks /\ ~last.args.exp.value

NoFailureHandling ==
    /\ last.outcome = "normal"
    /\ last.signal = NoSignal
    /\ last.err = <<>>
    /\ last.control = "next"
    /\ stderr = <<>>
    /\ ~aborted

\* The code and the expected kind of the last assert_exception.
Code == last.args.code
Kind == Spelling(last.args.ex)

ActiveAssertException == last.op = "assert_exception" /\ DebugActive

\* The code runs to its end without raising anything.
RaisesNothing ==
    \/ Code = <<Effect("a")>>
    \/ /\ Len(Code) = 3
       /\ Code[2].kind = "requires"
       /\ Code[2].exp.value

\* The code raises a signal of a type that Kind matches.
RaisesMatching ==
    /\ Len(Code) = 3
    /\ Code[2] = Throw("std::out_of_range")
    /\ Kind \in {"std::out_of_range", "std::logic_error"}

\* The code raises a signal of a type that Kind does not match.
RaisesOther ==
    /\ Len(Code) = 3
    /\ \/ Code[2] = Throw("std::runtime_error")
       \/ Code[2] = Throw("std::out_of_range") /\ Kind = "ContractViolated"

\* The code contains a requires whose condition is false.
FailedCheckInCode ==
    /\ Len(Code) = 3
    /\ Code[2].kind = "requires"
    /\ ~Code[2].exp.value

\* The last use was reported by __contracts_assert_failed with message msg
\* and ended in abort().
ReportedAndAborted(msg) ==
    /\ last.outcome = "abort"
    /\ last.signal = NoSignal
    /\ last.err = <<[format |-> ReporterFormat, file |-> File,
                     line |-> last.line, msg |-> msg]>>
    /\ stderr = last.err
    /\ last.control = "terminated"
    /\ aborted

(***************************************************************************)
(* C1 - with debugging active, EXDEBUG defined and C++ as the language, a  *)
(* requires / ensures / validate whose condition is false raises a         *)
(* ContractViolated whose message is the literal source text of the        *)
(* condition; it writes nothing, does not terminate the process, evaluates *)
(* the condition exactly once, and an enclosing handler for                *)
(* ContractViolated or std::logic_error receives control.                  *)
(***************************************************************************)
C1_SignalCarriesLiteralText ==
    (FailedCheck /\ DebugActive /\ ExceptionMode) =>
        /\ last.outcome = "throw"
        /\ last.signal.type = "ContractViolated"
        /\ last.signal.what = ConditionText
        /\ last.err = <<>>
        /\ stderr = <<>>
        /\ Count(last.trace, "eval") = 1
        /\ last.handler \in {"ContractViolated", "std::logic_error"} =>
               (last.control = "handler" /\ ~aborted)

(***************************************************************************)
(* C2 - when NDEBUG was defined at the inclusion in force, requires,       *)
(* ensures, validate and assert_exception have no observable effect: the   *)
(* condition is not evaluated, isValid() is not called, the code is not    *)
(* executed and no failure handling happens, whatever EXDEBUG is.          *)
(***************************************************************************)
C2_DisabledChecksDoNothing ==
    (last.op \in Checks \cup {"assert_exception"} /\ ~DebugActive) =>
        /\ last.trace = <<>>
        /\ NoFailureHandling

C2_Witness ==
    /\ last.op = "requires"
    /\ ~last.args.exp.value
    /\ last.flags.NDEBUG
    /\ last.flags.EXDEBUG
    /\ cplusplus
    /\ last.handler = "none"
    /\ ~aborted

(***************************************************************************)
(* C3 - with debugging active and exception mode not in effect, a          *)
(* requires / ensures / validate whose condition is false reports the file *)
(* name, the line number and the literal text of the condition on the      *)
(* diagnostic stream and terminates the process abnormally; no signal is   *)
(* raised and nothing after the check runs.                                *)
(***************************************************************************)
C3_AbortReportsLiteralText ==
    (FailedCheck /\ DebugActive /\ ~ExceptionMode) =>
        /\ last.outcome = "abort"
        /\ last.signal = NoSignal
        /\ Len(last.err) = 1
        /\ last.err[1].file = File
        /\ last.err[1].line = last.line
        /\ last.err[1].msg = ConditionText
        /\ stderr = last.err
        /\ last.control = "terminated"
        /\ aborted

(***************************************************************************)
(* C5 - a requires / ensures whose condition is true never triggers        *)
(* failure handling, in any configuration of NDEBUG, EXDEBUG and the host  *)
(* language, and execution continues with the next statement.              *)
(***************************************************************************)
C5_TrueConditionPasses ==
    (last.op \in {"requires", "ensures"} /\ last.args.exp.value) =>
        /\ NoFailureHandling
        /\ Count(last.trace, "eval") = (IF DebugActive THEN 1 ELSE 0)

C5_Witness ==
    /\ last.op = "ensures"
    /\ last.args.exp.value
    /\ DebugActive
    /\ ExceptionMode
    /\ last.trace = <<"eval">>
    /\ last.control = "next"

(***************************************************************************)
(* C6 - if_else_debug(A, B) yields exactly one of A and B: A when NDEBUG   *)
(* is not defined, B when it is, whatever EXDEBUG and the language are;    *)
(* if_debug(code) yields code exactly when NDEBUG is not defined and       *)
(* if_not_debug(code) exactly when it is, and a no-op otherwise.           *)
(***************************************************************************)
C6_ExactlyOneBranch ==
    /\ last.op = "if_else_debug" =>
           last.trace = (IF DebugActive THEN <<"A">> ELSE <<"B">>)
    /\ last.op = "if_debug" =>
           last.trace = (IF DebugActive THEN <<"A">> ELSE <<>>)
    /\ last.op = "if_not_debug" =>
           last.trace = (IF DebugActive THEN <<>> ELSE <<"A">>)
    /\ last.op \in {"if_else_debug", "if_debug", "if_not_debug"} =>
           NoFailureHandling

C6_Witness ==
    /\ last.op = "if_not_debug"
    /\ last.flags.NDEBUG
    /\ last.flags.EXDEBUG
    /\ last.trace = <<"A">>

(***************************************************************************)
(* C4 - on every default-mode failure, a failed requires / ensures /       *)
(* validate included, the message on standard error is the fixed-format    *)
(* message of __contracts_assert_failed, followed by abnormal termination. *)
(***************************************************************************)
C4_EveryFailureUsesReporter ==
    (last.op # "none" /\ DebugActive /\ ~ExceptionMode
     /\ last.outcome = "abort") =>
        /\ Len(last.err) = 1
        /\ last.err[1].format = ReporterFormat
        /\ aborted

\* C4 as amended: in default mode only a failing assert_exception is
\* reported in the fixed format of __contracts_assert_failed; a failed
\* requires / ensures / validate (also one inside the code of an
\* assert_exception) is reported by the standard macro assert, in the
\* format of the implementation, with the file and the line; each of them
\* is followed by abnormal termination.
C4_ReporterOnlyForAssertException ==
    (last.op # "none" /\ DebugActive /\ ~ExceptionMode) =>
        /\ (FailedCheck
            \/ (last.op = "assert_exception" /\ FailedCheckInCode)) =>
               /\ last.outcome = "abort"
               /\ Len(last.err) = 1
               /\ last.err[1].format = StandardAssertFormat
               /\ last.err[1].file = File
               /\ last.err[1].line = last.line
               /\ stderr = last.err
               /\ aborted
        /\ (last.op = "assert_exception"
            /\ (RaisesNothing \/ RaisesOther)) =>
               /\ last.outcome = "abort"
               /\ Len(last.err) = 1
               /\ last.err[1].format = ReporterFormat
               /\ last.err[1].file = File
               /\ last.err[1].line = last.line
               /\ stderr = last.err
               /\ aborted
        /\ last.outcome = "abort" =>
               (FailedCheck \/ last.op = "assert_exception")

C4_Witness ==
    /\ last.op = "validate"
    /\ ~last.args.exp.value
    /\ DebugActive
    /\ ~last.flags.EXDEBUG
    /\ aborted
    /\ Len(stderr) = 1
    /\ stderr[1].format = StandardAssertFormat

(***************************************************************************)
(* C7 - in C++ with debugging active, when the code raises a signal that   *)
(* matches K, assert_exception(code, K) succeeds: the code is executed     *)
(* exactly once, its effects up to the raise are observed exactly once,    *)
(* the signal is absorbed, nothing is reported and execution continues.    *)
(***************************************************************************)
C7_MatchingSignalSucceeds ==
    (ActiveAssertException /\ RaisesMatching) =>
        /\ last.trace = <<"a">>
        /\ NoFailureHandling

C7_Witness ==
    /\ ActiveAssertException
    /\ Code = <<Effect("a"), Throw("std::out_of_range"), Effect("b")>>
    /\ Kind = "std::logic_error"
    /\ last.trace = <<"a">>
    /\ last.control = "next"

(***************************************************************************)
(* C8 - in C++ with debugging active, assert_exception(code, K) fails      *)
(* with "No exception has been thrown (expected: K)." when the code raises *)
(* nothing and with "An unexpected exception has been thrown (expected:    *)
(* K)." when it raises a signal K does not match; the two cases are never  *)
(* confused.                                                               *)
(***************************************************************************)
C8_MessagesAsStated ==
    ActiveAssertException =>
        /\ RaisesNothing =>
               ReportedAndAborted("No exception has been thrown (expected: "
                                  \o Kind \o ").")
        /\ RaisesOther =>
               ReportedAndAborted("An unexpected exception has been thrown "
                                  \o "(expected: " \o Kind \o ").")

\* C8 as amended: the two messages are "No exceptions has been thrown
\* (expected: <U+201C>K<U+201D>)." and "An unexpected exception has been
\* thrown (expected: <U+201C>K<U+201D>).", K being the text of the second
\* argument between typographic quotation marks; the first is reported
\* exactly when the code raises nothing and the second exactly when it
\* raises a signal K does not match.
C8_MessagesOfTheCode ==
    ActiveAssertException =>
        /\ RaisesNothing =>
               ReportedAndAborted("No exceptions has been thrown (expected: "
                                  \o "<U+201C>" \o Kind \o "<U+201D>).")
        /\ RaisesOther =>
               ReportedAndAborted("An unexpected exception has been thrown "
                                  \o "(expected: <U+201C>" \o Kind
                                  \o "<U+201D>).")

C8_Witness ==
    /\ ActiveAssertException
    /\ Code = <<Effect("a"), Throw("std::runtime_error"), Effect("b")>>
    /\ Kind = "std::logic_error"
    /\ aborted
    /\ Len(stderr) = 1
    /\ stderr[1].format = ReporterFormat

(***************************************************************************)
(* C9 - after any sequence of inclusions of contracts.h, each under any    *)
(* combination of NDEBUG and EXDEBUG, the macros in force are those chosen *)
(* by the flags visible at the most recent inclusion: nothing of an        *)
(* earlier inclusion persists, and check enablement (CONTRACTS_ASSERT)     *)
(* and branch selection (if_else_debug) belong to the same configuration.  *)
(***************************************************************************)
C9_LastInclusionDecides ==
    H_CONTRACTS =>
        /\ macros.if_else_debug =
               (IF inclFlags.NDEBUG THEN "code_else" ELSE "code_if")
        /\ inclFlags.NDEBUG => macros.CONTRACTS_ASSERT = "void0"
        /\ (~inclFlags.NDEBUG /\ inclFlags.EXDEBUG /\ cplusplus) =>
               macros.CONTRACTS_ASSERT = "throw"
        /\ (~inclFlags.NDEBUG /\ ~(inclFlags.EXDEBUG /\ cplusplus)) =>
               (macros.CONTRACTS_ASSERT = "assert" /\ macros.assert = "check")
        /\ (macros.CONTRACTS_ASSERT = "void0") <=>
               (macros.if_else_debug = "code_else")

C9_Witness ==
    /\ inclusions = 2
    /\ inclFlags.NDEBUG
    /\ NDEBUG = FALSE
    /\ last.op = "requires"
    /\ ~last.flags.NDEBUG
    /\ last.flags.EXDEBUG
    /\ macros.CONTRACTS_ASSERT = "void0"

(***************************************************************************)
(* C10 - the failure of assert_exception does not follow the exception     *)
(* mode: in C++ with debugging active, with or without EXDEBUG, an         *)
(* assert_exception whose code raises nothing or a signal K does not match *)
(* is reported by __contracts_assert_failed and aborts, raises no          *)
(* ContractViolated and cannot be recovered by an enclosing handler; under *)
(* EXDEBUG the ContractViolated of a failed requires inside the code is an *)
(* ordinary signal, a success when K is ContractViolated or                *)
(* std::logic_error.                                                       *)
(***************************************************************************)
C10_AssertExceptionAlwaysAborts ==
    ActiveAssertException =>
        /\ (RaisesNothing \/ RaisesOther) =>
               /\ last.outcome = "abort"
               /\ last.signal = NoSignal
               /\ Len(last.err) = 1
               /\ last.err[1].format = ReporterFormat
               /\ last.control = "terminated"
               /\ aborted
        /\ (ExceptionMode /\ FailedCheckInCode) =>
               IF Kind \in {"ContractViolated", "std::logic_error"}
               THEN /\ last.trace = <<"a", "eval">>
                    /\ NoFailureHandling
               ELSE /\ last.outcome = "abort"
                    /\ last.err[1].format = ReporterFormat
                    /\ aborted

C10_Witness ==
    /\ ActiveAssertException
    /\ last.flags.EXDEBUG
    /\ last.handler = "std::logic_error"
    /\ Code = <<Effect("a")>>
    /\ aborted
    /\ last.signal = NoSignal
    /\ Len(stderr) = 1

====
